---------------------------- MODULE Spec2Model ----------------------------
(***************************************************************************)
(* Model of the allocation core of the News-Driven Portfolio Simulator:    *)
(* allocation_engine.py (equal_weight, clamp_weights, limit_turnover,      *)
(* determine_regime, build_portfolios), rebalance_to_target of app.py and  *)
(* the session state that one run of app.py's main() reads and writes.     *)
(*                                                                         *)
(* Numbers.  The program computes on Python floats.  The model computes on *)
(* exact rationals [n |-> numerator, d |-> denominator] kept in lowest     *)
(* terms with d > 0, so that equality of two numbers is equality of their  *)
(* records.  An equality such as "sums to 1.0" is therefore exact here,    *)
(* where the program reaches it up to floating-point rounding.             *)
(*                                                                         *)
(* Mappings.  A Python dict ticker -> weight is a function whose DOMAIN is *)
(* the key set; the empty dict is the function with the empty domain.      *)
(***************************************************************************)
EXTENDS Integers, Sequences, FiniteSets, Bags, TLC

(***************************************************************************)
(* Exact rational arithmetic                                               *)
(***************************************************************************)
Abs(i) == IF i < 0 THEN 0 - i ELSE i

RECURSIVE GCD(_, _)
GCD(a, b) == IF b = 0 THEN a ELSE GCD(b, a % b)

\* the rational num/den (den # 0) in lowest terms with a positive denominator
R(num, den) ==
    LET s == IF den < 0 THEN 0 - 1 ELSE 1
        g == GCD(Abs(num), Abs(den))
    IN  [n |-> (s * num) \div g, d |-> (s * den) \div g]

Zero == R(0, 1)
One == R(1, 1)

\* the operations cancel common factors before they multiply, so that the
\* intermediate integers stay as small as the results
RAdd(x, y) ==
    LET g == GCD(x.d, y.d)
    IN  R(x.n * (y.d \div g) + y.n * (x.d \div g), (x.d \div g) * y.d)
RNeg(x) == [n |-> 0 - x.n, d |-> x.d]
RSub(x, y) == RAdd(x, RNeg(y))
RMul(x, y) ==
    LET g1 == GCD(Abs(x.n), y.d)
        g2 == GCD(Abs(y.n), x.d)
    IN  [n |-> (x.n \div g1) * (y.n \div g2), d |-> (x.d \div g2) * (y.d \div g1)]
\* 1 / y, for y # 0
RInv(y) == IF y.n < 0 THEN [n |-> 0 - y.d, d |-> 0 - y.n] ELSE [n |-> y.d, d |-> y.n]
RDiv(x, y) == RMul(x, RInv(y))
RLe(x, y) ==
    LET g == GCD(x.d, y.d)
    IN  x.n * (y.d \div g) <= y.n * (x.d \div g)
RLt(x, y) == ~RLe(y, x)
RAbs(x) == [n |-> Abs(x.n), d |-> x.d]
RMax(x, y) == IF RLe(x, y) THEN y ELSE x
RMin(x, y) == IF RLe(x, y) THEN x ELSE y

\* the ticker identifiers of the model: the two configured universes, then
\* identifiers outside both
Tickers ==
    << "NVDA", "TSLA", "AAPL", "MSFT", "AMZN", "GOOGL", "META", "AVGO", "AMD",
       "CRM", "NOW", "ASML", "TSM", "NFLX", "INTC",
       "BRK-B", "JNJ", "PG", "KO", "PEP", "WMT", "COST", "MCD",
       "V", "MA", "UNH", "XOM", "CVX", "NEE",
       "A", "B", "X" >>

\* the sum of the values of w at the keys Tickers[lo..hi], by halving
RECURSIVE SumRange(_, _, _)
SumRange(w, lo, hi) ==
    IF lo > hi THEN Zero
    ELSE IF lo = hi
    THEN (IF Tickers[lo] \in DOMAIN w THEN w[Tickers[lo]] ELSE Zero)
    ELSE RAdd(SumRange(w, lo, (lo + hi) \div 2),
              SumRange(w, (lo + hi) \div 2 + 1, hi))

\* Python's sum(d.values()) of a dict d
SumValues(w) == SumRange(w, 1, Len(Tickers))

\* dict.get(k, 0.0)
Get(w, k) == IF k \in DOMAIN w THEN w[k] ELSE Zero

\* the empty dict {}
EmptyDict == [t \in {} |-> Zero]

\* a dict built by a comprehension: its items are computed once, when it is
\* built, and held as a finite table
Dict(f) == f @@ EmptyDict

\* the set of elements of a list
Range(s) == {s[i] : i \in 1..Len(s)}

(***************************************************************************)
(* config.py                                                               *)
(***************************************************************************)
MAX_WEIGHT_PER_STOCK == R(15, 100)
MAX_TURNOVER_PER_UPDATE == R(15, 100)

BEARISH_UNIVERSE ==
    << "AAPL", "BRK-B", "JNJ", "PG", "KO", "PEP", "WMT", "COST", "MCD",
       "V", "MA", "UNH", "XOM", "CVX", "NEE" >>

BULLISH_UNIVERSE ==
    << "NVDA", "TSLA", "AAPL", "MSFT", "AMZN", "GOOGL", "META", "AVGO", "AMD",
       "CRM", "NOW", "ASML", "TSM", "NFLX", "INTC" >>

(***************************************************************************)
(* allocation_engine.py                                                    *)
(***************************************************************************)
equal_weight(tickers) ==
    IF Len(tickers) = 0 THEN EmptyDict
    ELSE LET w == R(1, Len(tickers))
         IN  Dict([t \in Range(tickers) |-> w])

\* cap each weight, then renormalize
\* clamp_weights that forgets the upper clip (only negative weights clipped)
clamp_weights_no_cap(weights) ==
    LET capped == Dict([k \in DOMAIN weights |-> RMax(Zero, weights[k])])
        s == SumValues(capped)
    IN  IF RLe(s, Zero) THEN capped
        ELSE Dict([k \in DOMAIN capped |-> RDiv(capped[k], s)])

\* clamp_weights that forgets to renormalise after clipping
clamp_weights_no_renorm(weights) ==
    Dict([k \in DOMAIN weights |->
            RMin(MAX_WEIGHT_PER_STOCK, RMax(Zero, weights[k]))])

clamp_weights(weights) ==
    LET capped == Dict([k \in DOMAIN weights |->
                     RMin(MAX_WEIGHT_PER_STOCK, RMax(Zero, weights[k]))])
        s == SumValues(capped)
    IN  IF RLe(s, Zero) THEN capped
        ELSE Dict([k \in DOMAIN capped |-> RDiv(capped[k], s)])

\* sum over the union of keys of |target - prev|, a missing key counting 0
Turnover(prev, target) ==
    LET all_keys == (DOMAIN prev) \cup (DOMAIN target)
    IN  SumValues(Dict([k \in all_keys |->
                           RAbs(RSub(Get(target, k), Get(prev, k)))]))

\* limit_turnover that scales the differences by the turnover instead of by
\* MAX_TURNOVER_PER_UPDATE / turnover
limit_turnover_wrong_scale(prev, target) ==
    LET all_keys == (DOMAIN prev) \cup (DOMAIN target)
        diffs == Dict([k \in all_keys |-> RSub(Get(target, k), Get(prev, k))])
        turnover == SumValues(Dict([k \in all_keys |-> RAbs(diffs[k])]))
    IN  IF RLe(turnover, MAX_TURNOVER_PER_UPDATE) \/ turnover = Zero
        THEN target
        ELSE LET scale == RMin(One, turnover)
                 blend == Dict([k \in all_keys |->
                                  RAdd(Get(prev, k), RMul(diffs[k], scale))])
                 limited == Dict([k \in all_keys |-> RMax(Zero, blend[k])])
                 s == SumValues(limited)
             IN  IF RLe(s, Zero) THEN target
                 ELSE Dict([k \in all_keys |-> RDiv(limited[k], s)])

\* limit_turnover without the early return for a turnover within the
\* limit: the blend is always floored and renormalised
limit_turnover_always_blend(prev, target) ==
    LET all_keys == (DOMAIN prev) \cup (DOMAIN target)
        diffs == Dict([k \in all_keys |-> RSub(Get(target, k), Get(prev, k))])
        turnover == SumValues(Dict([k \in all_keys |-> RAbs(diffs[k])]))
        scale == IF RLe(turnover, MAX_TURNOVER_PER_UPDATE) THEN One
                 ELSE RDiv(MAX_TURNOVER_PER_UPDATE, turnover)
        blend == Dict([k \in all_keys |->
                         RAdd(Get(prev, k), RMul(diffs[k], scale))])
        limited == Dict([k \in all_keys |-> RMax(Zero, blend[k])])
        s == SumValues(limited)
    IN  IF RLe(s, Zero) THEN target
        ELSE Dict([k \in all_keys |-> RDiv(limited[k], s)])

\* limit_turnover that blends over the keys of the target only
limit_turnover_target_keys(prev, target) ==
    LET all_keys == DOMAIN target
        diffs == Dict([k \in all_keys |-> RSub(Get(target, k), Get(prev, k))])
        turnover == SumValues(Dict([k \in all_keys |-> RAbs(diffs[k])]))
    IN  IF RLe(turnover, MAX_TURNOVER_PER_UPDATE) \/ turnover = Zero
        THEN target
        ELSE LET scale == RDiv(MAX_TURNOVER_PER_UPDATE, turnover)
                 blend == Dict([k \in all_keys |->
                                  RAdd(Get(prev, k), RMul(diffs[k], scale))])
                 limited == Dict([k \in all_keys |-> RMax(Zero, blend[k])])
                 s == SumValues(limited)
             IN  IF RLe(s, Zero) THEN target
                 ELSE Dict([k \in all_keys |-> RDiv(limited[k], s)])

\* limit_turnover that returns the floored blend when its sum is not
\* positive
limit_turnover_returns_blend(prev, target) ==
    LET all_keys == (DOMAIN prev) \cup (DOMAIN target)
        diffs == Dict([k \in all_keys |-> RSub(Get(target, k), Get(prev, k))])
        turnover == SumValues(Dict([k \in all_keys |-> RAbs(diffs[k])]))
    IN  IF RLe(turnover, MAX_TURNOVER_PER_UPDATE) \/ turnover = Zero
        THEN target
        ELSE LET scale == RDiv(MAX_TURNOVER_PER_UPDATE, turnover)
                 blend == Dict([k \in all_keys |->
                                  RAdd(Get(prev, k), RMul(diffs[k], scale))])
                 limited == Dict([k \in all_keys |-> RMax(Zero, blend[k])])
                 s == SumValues(limited)
             IN  IF RLe(s, Zero) THEN limited
                 ELSE Dict([k \in all_keys |-> RDiv(limited[k], s)])

\* limit_turnover that moves by half of MAX_TURNOVER_PER_UPDATE
limit_turnover_half_step(prev, target) ==
    LET all_keys == (DOMAIN prev) \cup (DOMAIN target)
        diffs == Dict([k \in all_keys |-> RSub(Get(target, k), Get(prev, k))])
        turnover == SumValues(Dict([k \in all_keys |-> RAbs(diffs[k])]))
    IN  IF RLe(turnover, MAX_TURNOVER_PER_UPDATE) \/ turnover = Zero
        THEN target
        ELSE LET scale == RDiv(MAX_TURNOVER_PER_UPDATE, RMul(R(2, 1), turnover))
                 blend == Dict([k \in all_keys |->
                                  RAdd(Get(prev, k), RMul(diffs[k], scale))])
                 limited == Dict([k \in all_keys |-> RMax(Zero, blend[k])])
                 s == SumValues(limited)
             IN  IF RLe(s, Zero) THEN target
                 ELSE Dict([k \in all_keys |-> RDiv(limited[k], s)])

\* limits total absolute change per update
limit_turnover(prev, target) ==
    LET all_keys == (DOMAIN prev) \cup (DOMAIN target)
        diffs == Dict([k \in all_keys |-> RSub(Get(target, k), Get(prev, k))])
        turnover == SumValues(Dict([k \in all_keys |-> RAbs(diffs[k])]))
    IN  IF RLe(turnover, MAX_TURNOVER_PER_UPDATE) \/ turnover = Zero
        THEN target
        ELSE LET scale == RDiv(MAX_TURNOVER_PER_UPDATE, turnover)
                 blend == Dict([k \in all_keys |->
                                  RAdd(Get(prev, k), RMul(diffs[k], scale))])
                 limited == Dict([k \in all_keys |-> RMax(Zero, blend[k])])
                 s == SumValues(limited)
             IN  IF RLe(s, Zero) THEN target
                 ELSE Dict([k \in all_keys |-> RDiv(limited[k], s)])

\* reason strings returned by determine_regime
NoSignalReason == "No news signals available; defaulting to Neutral."
RiskOffReason == "Risk-off: negative macro/geopolitical signals dominate."
RiskOnReason == "Risk-on: positive news signals dominate."
MixedReason == "Mixed signals: holding Neutral regime."

\* the accumulation loop of determine_regime over analyses[i..]
RECURSIVE Accumulate(_, _, _)
Accumulate(analyses, i, acc) ==
    IF i > Len(analyses) THEN acc
    ELSE LET a == analyses[i]
             impact == a.impact_score
             cat == IF a.category = "None" THEN "Mixed" ELSE a.category
             next ==
               IF a.label = "Positive"
               THEN [acc EXCEPT !.pos = RAdd(acc.pos, impact)]
               ELSE IF a.label = "Negative"
               THEN [acc EXCEPT
                       !.neg = RAdd(acc.neg, impact),
                       !.macro_geo_neg =
                          IF cat \in {"Macro", "Geopolitical", "Mixed"}
                          THEN RAdd(acc.macro_geo_neg, impact)
                          ELSE acc.macro_geo_neg]
               ELSE acc
         IN  Accumulate(analyses, i + 1, next)

\* determine_regime with a strict threshold in the Bullish rule (pos > 1.0)
determine_regime_strict(analyses) ==
    IF Len(analyses) = 0 THEN <<"Neutral", NoSignalReason>>
    ELSE LET acc == Accumulate(analyses, 1,
                        [pos |-> Zero, neg |-> Zero, macro_geo_neg |-> Zero])
         IN  IF RLe(One, acc.macro_geo_neg) /\ RLt(acc.pos, acc.neg)
             THEN <<"Bearish", RiskOffReason>>
             ELSE IF RLt(One, acc.pos) /\ RLt(acc.neg, acc.pos)
             THEN <<"Bullish", RiskOnReason>>
             ELSE <<"Neutral", MixedReason>>

\* determine_regime whose Bullish rule forgets the dominance test pos > neg
determine_regime_no_dominance(analyses) ==
    IF Len(analyses) = 0 THEN <<"Neutral", NoSignalReason>>
    ELSE LET acc == Accumulate(analyses, 1,
                        [pos |-> Zero, neg |-> Zero, macro_geo_neg |-> Zero])
         IN  IF RLe(One, acc.macro_geo_neg) /\ RLt(acc.pos, acc.neg)
             THEN <<"Bearish", RiskOffReason>>
             ELSE IF RLe(One, acc.pos)
             THEN <<"Bullish", RiskOnReason>>
             ELSE <<"Neutral", MixedReason>>

\* determine_regime without the early return for an empty list
determine_regime_no_empty_check(analyses) ==
    LET acc == Accumulate(analyses, 1,
                   [pos |-> Zero, neg |-> Zero, macro_geo_neg |-> Zero])
    IN  IF RLe(One, acc.macro_geo_neg) /\ RLt(acc.pos, acc.neg)
        THEN <<"Bearish", RiskOffReason>>
        ELSE IF RLe(One, acc.pos) /\ RLt(acc.neg, acc.pos)
        THEN <<"Bullish", RiskOnReason>>
        ELSE <<"Neutral", MixedReason>>

\* returns <<regime, reason>>
determine_regime(analyses) ==
    IF Len(analyses) = 0 THEN <<"Neutral", NoSignalReason>>
    ELSE LET acc == Accumulate(analyses, 1,
                        [pos |-> Zero, neg |-> Zero, macro_geo_neg |-> Zero])
         IN  IF RLe(One, acc.macro_geo_neg) /\ RLt(acc.pos, acc.neg)
             THEN <<"Bearish", RiskOffReason>>
             ELSE IF RLe(One, acc.pos) /\ RLt(acc.neg, acc.pos)
             THEN <<"Bullish", RiskOnReason>>
             ELSE <<"Neutral", MixedReason>>

\* small explainable regime tilts
BullTilt == {"NVDA", "MSFT", "AAPL", "AMZN"}
BearTilt == {"BRK-B", "JNJ", "PG", "WMT"}
TiltBonus == R(1, 100)

Tilted(target, tilt) ==
    Dict([t \in DOMAIN target |->
            IF t \in tilt THEN RAdd(target[t], TiltBonus) ELSE target[t]])

\* the clamped target of one universe: equal weight, tilt, clamp_weights
bull_target(bullish_universe, regime) ==
    clamp_weights(IF regime = "Bullish"
                  THEN Tilted(equal_weight(bullish_universe), BullTilt)
                  ELSE equal_weight(bullish_universe))

\* bear_target that also applies the bullish tilt when the regime is Bullish
bear_target_tilts_bullish(bearish_universe, regime) ==
    clamp_weights(IF regime = "Bearish"
                  THEN Tilted(equal_weight(bearish_universe), BearTilt)
                  ELSE IF regime = "Bullish"
                  THEN Tilted(equal_weight(bearish_universe), BullTilt)
                  ELSE equal_weight(bearish_universe))

bear_target(bearish_universe, regime) ==
    clamp_weights(IF regime = "Bearish"
                  THEN Tilted(equal_weight(bearish_universe), BearTilt)
                  ELSE equal_weight(bearish_universe))

\* "prev or target": an empty dict is falsy
OrElse(prev, target) == IF DOMAIN prev = {} THEN target ELSE prev

\* returns <<bull_final, bear_final>>
build_portfolios(bullish_universe, bearish_universe, regime, prev_bull, prev_bear) ==
    LET bt == bull_target(bullish_universe, regime)
        et == bear_target(bearish_universe, regime)
    IN  << limit_turnover(OrElse(prev_bull, bt), bt),
           limit_turnover(OrElse(prev_bear, et), et) >>

(***************************************************************************)
(* app.py: decision log helpers                                            *)
(***************************************************************************)
\* sum of absolute weight changes
compute_turnover(old_weights, new_weights) ==
    LET all_tickers == (DOMAIN old_weights) \cup (DOMAIN new_weights)
    IN  SumValues(Dict([ticker \in all_tickers |->
                          RAbs(RSub(Get(new_weights, ticker),
                                    Get(old_weights, ticker)))]))

\* utc_now_iso(): "YYYY-MM-DDTHH:MM" followed by ":SS+00:00"
Timestamp(minute, second) == [minute |-> minute, second |-> second]

\* round(v, 3), ties to the even digit
Round3(v) ==
    LET x == 1000 * v.n
        q == x \div v.d
        r == x % v.d
    IN  IF 2 * r < v.d THEN R(q, 1000)
        ELSE IF 2 * r > v.d THEN R(q + 1, 1000)
        ELSE IF q % 2 = 0 THEN R(q, 1000) ELSE R(q + 1, 1000)

\* The md5 digest of "regime|rounded weights|timestamp to the minute",
\* kept as the digested triple: two inputs have the same hash exactly when
\* their triples are equal (md5 collisions are left out).
create_decision_hash(regime, weights, timestamp) ==
    LET ts_minute == timestamp.minute
        rounded_weights == [k \in DOMAIN weights |-> Round3(weights[k])]
    IN  << regime, rounded_weights, ts_minute >>

\* the literal 100 of "keep last 100"
TrimLimit == 100

\* set(list(hashes)[-100:]): the elements after the first
\* len - 100 in the iteration order of the set, which is arbitrary.  The
\* set is trimmed after every add, so it holds 101 hashes here and any one
\* of them is dropped.
KeepLast(hashes) == { hashes \ {dropped} : dropped \in hashes }

\* should_log_decision that skips the test for an already logged hash
should_log_decision_no_dedup(logged, old_weights, new_weights, decision_hash, min_turnover, high_impact_news) ==
    IF RLe(min_turnover, compute_turnover(old_weights, new_weights))
          \/ high_impact_news
    THEN LET added == logged \cup {decision_hash}
         IN  IF Cardinality(added) > TrimLimit
             THEN { [result |-> TRUE, logged |-> kept] : kept \in KeepLast(added) }
             ELSE { [result |-> TRUE, logged |-> added] }
    ELSE { [result |-> FALSE, logged |-> logged] }

\* logged is st.session_state.logged_decision_hashes before the call; the
\* possible outcomes: the returned value and the set after the call
should_log_decision(logged, old_weights, new_weights, decision_hash, min_turnover, high_impact_news) ==
    IF decision_hash \in logged
    THEN { [result |-> FALSE, logged |-> logged] }
    ELSE IF RLe(min_turnover, compute_turnover(old_weights, new_weights))
               \/ high_impact_news
    THEN LET added == logged \cup {decision_hash}
         IN  IF Cardinality(added) > TrimLimit
             THEN { [result |-> TRUE, logged |-> kept] : kept \in KeepLast(added) }
             ELSE { [result |-> TRUE, logged |-> added] }
    ELSE { [result |-> FALSE, logged |-> logged] }

\* db.log_decision: one more row, kept by the hash it was logged under
log_decision(log, decision_hash) == log (+) SetToBag({decision_hash})

(***************************************************************************)
(* app.py: manual reallocation                                             *)
(***************************************************************************)
\* the literal 1e-9 is 1 / EpsilonInverse
EpsilonInverse == 1000000000

\* x <= 1e-9, computed without forming a product with EpsilonInverse:
\* for x > 0, n/d <= 1/E  iff  E <= d \div n
LeEpsilon(x) == x.n <= 0 \/ EpsilonInverse <= x.d \div x.n

\* rebalance_to_target whose equal split divides the remainder by the number
\* of all keys instead of the number of other keys
rebalance_to_target_split_all(weights, ticker, target_weight) ==
    IF ticker \notin DOMAIN weights THEN weights
    ELSE LET cap == MAX_WEIGHT_PER_STOCK
             tw == RMax(Zero, RMin(target_weight, cap))
             keys == DOMAIN weights
         IN  IF Cardinality(keys) = 1 THEN Dict([k \in {ticker} |-> One])
             ELSE LET others == keys \ {ticker}
                      other_total_old == SumValues(Dict([k \in others |-> weights[k]]))
                      remaining == RSub(One, tw)
                  IN  IF LeEpsilon(other_total_old)
                      THEN LET eq == RDiv(remaining, R(Cardinality(keys), 1))
                           IN  Dict([k \in keys |-> IF k = ticker THEN tw ELSE eq])
                      ELSE LET scale == RDiv(remaining, other_total_old)
                               out == Dict([k \in keys |->
                                              IF k = ticker THEN tw
                                              ELSE RMul(weights[k], scale)])
                               s == SumValues(out)
                           IN  IF RLt(Zero, s)
                               THEN Dict([k \in keys |-> RDiv(out[k], s)])
                               ELSE out

\* rebalance_to_target without the test for an absent ticker: the ticker is
\* added to the mapping
rebalance_to_target_adds_absent(weights, ticker, target_weight) ==
    LET cap == MAX_WEIGHT_PER_STOCK
        tw == RMax(Zero, RMin(target_weight, cap))
        keys == (DOMAIN weights) \cup {ticker}
    IN  IF Cardinality(keys) = 1 THEN Dict([k \in {ticker} |-> One])
        ELSE LET others == keys \ {ticker}
                 other_total_old == SumValues(Dict([k \in others |-> weights[k]]))
                 remaining == RSub(One, tw)
             IN  IF LeEpsilon(other_total_old)
                 THEN LET eq == RDiv(remaining, R(Cardinality(others), 1))
                      IN  Dict([k \in keys |-> IF k = ticker THEN tw ELSE eq])
                 ELSE LET scale == RDiv(remaining, other_total_old)
                      IN  Dict([k \in keys |->
                                  IF k = ticker THEN tw
                                  ELSE RMul(weights[k], scale)])

\* rebalance_to_target that forgets to clamp the requested target weight
rebalance_to_target_no_clamp(weights, ticker, target_weight) ==
    IF ticker \notin DOMAIN weights THEN weights
    ELSE LET tw == target_weight
             keys == DOMAIN weights
         IN  IF Cardinality(keys) = 1 THEN Dict([k \in {ticker} |-> One])
             ELSE LET others == keys \ {ticker}
                      other_total_old == SumValues(Dict([k \in others |-> weights[k]]))
                      remaining == RSub(One, tw)
                  IN  IF LeEpsilon(other_total_old)
                      THEN LET eq == RDiv(remaining, R(Cardinality(others), 1))
                           IN  Dict([k \in keys |-> IF k = ticker THEN tw ELSE eq])
                      ELSE LET scale == RDiv(remaining, other_total_old)
                               out == Dict([k \in keys |->
                                              IF k = ticker THEN tw
                                              ELSE RMul(weights[k], scale)])
                               s == SumValues(out)
                           IN  IF RLt(Zero, s)
                               THEN Dict([k \in keys |-> RDiv(out[k], s)])
                               ELSE out

rebalance_to_target(weights, ticker, target_weight) ==
    IF ticker \notin DOMAIN weights THEN weights
    ELSE LET cap == MAX_WEIGHT_PER_STOCK
             tw == RMax(Zero, RMin(target_weight, cap))
             keys == DOMAIN weights
         IN  IF Cardinality(keys) = 1 THEN Dict([k \in {ticker} |-> One])
             ELSE LET others == keys \ {ticker}
                      other_total_old == SumValues(Dict([k \in others |-> weights[k]]))
                      remaining == RSub(One, tw)
                  IN  IF LeEpsilon(other_total_old)
                      THEN LET eq == RDiv(remaining, R(Cardinality(others), 1))
                           IN  Dict([k \in keys |-> IF k = ticker THEN tw ELSE eq])
                      ELSE LET scale == RDiv(remaining, other_total_old)
                               out == Dict([k \in keys |->
                                              IF k = ticker THEN tw
                                              ELSE RMul(weights[k], scale)])
                               s == SumValues(out)
                           IN  IF RLt(Zero, s)
                               THEN Dict([k \in keys |-> RDiv(out[k], s)])
                               ELSE out


(***************************************************************************)
(* app.py: the session state of main() and one run of the script           *)
(***************************************************************************)
VARIABLES
    bull_weights,          \* st.session_state.bull_weights
    bear_weights,          \* st.session_state.bear_weights
    prev_bull_weights,     \* st.session_state.prev_bull_weights
    prev_bear_weights,     \* st.session_state.prev_bear_weights
    show_sentiment_modal,  \* st.session_state.show_sentiment_modal
    pending_analysis,      \* st.session_state.pending_analysis
    reallocate_approved,   \* st.session_state.reallocate_approved
    logged_decision_hashes, \* st.session_state.logged_decision_hashes
    decision_log,          \* rows db.log_decision wrote, by decision hash
    alert_rendered,        \* the last run drew the Yes / No buttons on the page
    runs,                  \* number of runs of main() so far
    run,                   \* what the last run of main() did
    pc,                    \* position of a call of one function of the core
    args,                  \* the arguments of that call
    ret                    \* its return value

session == << bull_weights, bear_weights, prev_bull_weights, prev_bear_weights,
              show_sentiment_modal, pending_analysis, reallocate_approved,
              logged_decision_hashes, decision_log, alert_rendered, runs, run >>
harness == << pc, args, ret >>
vars == << bull_weights, bear_weights, prev_bull_weights, prev_bear_weights,
           show_sentiment_modal, pending_analysis, reallocate_approved,
           logged_decision_hashes, decision_log, alert_rendered, runs, run,
           pc, args, ret >>

\* bounds of the session model
MaxRuns == 3
ManualTickerCount == 2

Regimes == {"Bullish", "Bearish", "Neutral"}

\* an analysis: the fields of analyze_headline's result that main() reads
Analysis(label, impact, category) ==
    [label |-> label, impact_score |-> impact, category |-> category]

\* st.session_state.pending_analysis = None
NoAnalysis == Analysis("None", Zero, "None")

\* analyses that analyze_headline returns for three kinds of headline
PositiveCompany == Analysis("Positive", R(85, 100), "Company")
NegativeMacro == Analysis("Negative", R(90, 100), "Macro")
NeutralMixed == Analysis("Neutral", Zero, "Mixed")

\* the analyses of one run, one per fetched headline (main() falls back to
\* three fixed headlines when the feeds return none): a batch without an
\* alerting headline (Neutral), an alerting Bullish and an alerting Bearish batch
Batches ==
    { << NeutralMixed >>,
      << PositiveCompany, PositiveCompany >>,
      << NeutralMixed, NegativeMacro, NegativeMacro >> }

\* the alert threshold 0.40
AlertThreshold == R(40, 100)

IsAlert(a) ==
    a.label \in {"Positive", "Negative"} /\ RLe(AlertThreshold, a.impact_score)

\* the slider of the reallocation panel: 0.0 .. min(0.20, cap) in steps of 0.005
SliderStep == R(5, 1000)
SliderMax == RMin(R(20, 100), MAX_WEIGHT_PER_STOCK)
SliderInputs == {Zero, SliderMax}

Universe(portfolio_choice) ==
    IF portfolio_choice = "Bullish" THEN BULLISH_UNIVERSE ELSE BEARISH_UNIVERSE

\* the tickers the Asset selectbox is set to in the model
ManualTickers(portfolio_choice) ==
    {Universe(portfolio_choice)[i] : i \in 1..ManualTickerCount}

\* the last run before any run
NoRun ==
    [click |-> "none", regime |-> "Neutral", portfolio |-> "None",
     ticker |-> "None", target_w |-> Zero, old_weights |-> EmptyDict,
     updated |-> EmptyDict]

Init ==
    /\ bull_weights = EmptyDict
    /\ bear_weights = EmptyDict
    /\ prev_bull_weights = EmptyDict
    /\ prev_bear_weights = EmptyDict
    /\ show_sentiment_modal = FALSE
    /\ pending_analysis = NoAnalysis
    /\ reallocate_approved = FALSE
    /\ logged_decision_hashes = {}
    /\ decision_log = EmptyBag
    /\ alert_rendered = FALSE
    /\ runs = 0
    /\ run = NoRun
    /\ pc = "main"
    /\ args = << >>
    /\ ret = << >>

\* a confirmation that passes the rebalanced weights through limit_turnover
Updated_limited(active_weights, ticker, target_w) ==
    limit_turnover(active_weights,
                   rebalance_to_target(active_weights, ticker, target_w))

\* lines 650-651: the weights a confirmed reallocation stores
Updated(active_weights, ticker, target_w) ==
    rebalance_to_target(active_weights, ticker, target_w)

\* lines 462-463, get_relevant_headlines: some headline has an impact of
\* 0.40 or more and the label Positive or Negative
has_high_impact(analyses) ==
    \E i \in 1..Len(analyses) :
        /\ RLe(R(40, 100), analyses[i].impact_score)
        /\ analyses[i].label \in {"Positive", "Negative"}

\* line 395: the time of a run; the runs of the model fall in one minute
RunTimes == {Timestamp(0, 0)}

\* lines 414-430: a headline that alerts while no alert is shown opens the
\* alert; the first such headline of the run becomes the pending analysis
Alerts(analyses) == {i \in 1..Len(analyses) : IsAlert(analyses[i])}
AlertOpens(analyses) == ~show_sentiment_modal /\ Alerts(analyses) # {}
FirstAlert(analyses) ==
    analyses[CHOOSE i \in Alerts(analyses) : \A j \in Alerts(analyses) : i <= j]

\* lines 505-520: the base portfolios are built from the stored weights and
\* stored only for a portfolio whose stored weights are empty
BasePortfolios(regime) ==
    LET base == build_portfolios(BULLISH_UNIVERSE, BEARISH_UNIVERSE, regime,
                                 bull_weights, bear_weights)
    IN  [ bull_weights |->
              IF DOMAIN bull_weights = {} THEN base[1] ELSE bull_weights,
          prev_bull_weights |->
              IF DOMAIN bull_weights = {} THEN base[1] ELSE prev_bull_weights,
          bear_weights |->
              IF DOMAIN bear_weights = {} THEN base[2] ELSE bear_weights,
          prev_bear_weights |->
              IF DOMAIN bear_weights = {} THEN base[2] ELSE prev_bear_weights ]

\* One run of main(), started by an auto-refresh (click = "none") or by a
\* click on a button of the page.  analyses are the analyses of the fetched
\* headlines; portfolio_choice, ticker and target_w are the values of the
\* Portfolio and Asset selectboxes and of the slider.  Each step's result is
\* bound once, in the order main() computes it.
MainRun(click, now, analyses, portfolio_choice, ticker, target_w) ==
    \E modal1 \in {show_sentiment_modal \/ AlertOpens(analyses)},
       \* line 457
       regime \in {determine_regime(analyses)[1]} :
    \* lines 461-476: the regime decision is logged under its hash
    \E regime_hash \in {create_decision_hash(regime, EmptyDict, now)} :
    \E regime_log \in should_log_decision(logged_decision_hashes, EmptyDict,
                                          EmptyDict, regime_hash, Zero,
                                          has_high_impact(analyses)) :
    \E stored \in {BasePortfolios(regime)} :
    \* lines 580-598
    \E active_weights \in {IF portfolio_choice = "Bullish"
                            THEN stored.bull_weights ELSE stored.bear_weights} :
    \* lines 644-651
    \E confirm \in {click = "confirm"},
       updated \in {IF click = "confirm"
                    THEN Updated(active_weights, ticker, target_w)
                    ELSE EmptyDict} :
    \* lines 657-675: a confirmed reallocation is logged under its hash
    \E decision_hash \in {create_decision_hash(regime, updated, now)} :
    \E manual_log \in
          IF confirm
          THEN should_log_decision(regime_log.logged, active_weights, updated,
                                   decision_hash, R(1, 100),
                                   has_high_impact(analyses))
          ELSE { [result |-> FALSE, logged |-> regime_log.logged] } :
        /\ pending_analysis' =
              IF AlertOpens(analyses) THEN FirstAlert(analyses)
              ELSE pending_analysis
        \* lines 480-502: the buttons exist only while the alert is shown
        /\ show_sentiment_modal' =
              IF modal1 /\ click \in {"yes", "no"} THEN FALSE ELSE modal1
        /\ reallocate_approved' =
              IF modal1 /\ click = "yes" THEN TRUE
              ELSE IF modal1 /\ click = "no" THEN FALSE
              ELSE reallocate_approved
        /\ alert_rendered' = modal1
        /\ logged_decision_hashes' = manual_log.logged
        /\ decision_log' =
              LET regime_logged ==
                      IF regime_log.result
                      THEN log_decision(decision_log, regime_hash)
                      ELSE decision_log
              IN  IF manual_log.result
                  THEN log_decision(regime_logged, decision_hash)
                  ELSE regime_logged
        \* lines 651, 682
        /\ bull_weights' =
              IF confirm /\ portfolio_choice = "Bullish" THEN updated
              ELSE stored.bull_weights
        /\ prev_bull_weights' =
              IF confirm /\ portfolio_choice = "Bullish" THEN updated
              ELSE stored.prev_bull_weights
        /\ bear_weights' =
              IF confirm /\ portfolio_choice # "Bullish" THEN updated
              ELSE stored.bear_weights
        /\ prev_bear_weights' =
              IF confirm /\ portfolio_choice # "Bullish" THEN updated
              ELSE stored.prev_bear_weights
        /\ runs' = runs + 1
        /\ run' = [click |-> click, regime |-> regime,
                   portfolio |-> IF confirm THEN portfolio_choice ELSE "None",
                   ticker |-> IF confirm THEN ticker ELSE "None",
                   target_w |-> IF confirm THEN target_w ELSE Zero,
                   old_weights |-> IF confirm THEN active_weights ELSE EmptyDict,
                   updated |-> updated]
        /\ UNCHANGED harness

\* a refresh cycle: st_autorefresh reruns the script, no button was clicked
Refresh ==
    /\ pc = "main" /\ runs < MaxRuns
    /\ \E analyses \in Batches, now \in RunTimes :
          MainRun("none", now, analyses, "Bullish", "TSLA", Zero)

\* a click on "Yes, Allow Reallocation", drawn by the last run
ClickYes ==
    /\ pc = "main" /\ runs < MaxRuns /\ alert_rendered
    /\ \E analyses \in Batches, now \in RunTimes :
          MainRun("yes", now, analyses, "Bullish", "TSLA", Zero)

\* a click on "No, Ignore", drawn by the last run
ClickNo ==
    /\ pc = "main" /\ runs < MaxRuns /\ alert_rendered
    /\ \E analyses \in Batches, now \in RunTimes :
          MainRun("no", now, analyses, "Bullish", "TSLA", Zero)

\* a click on "CONFIRM REALLOCATION", drawn by every run
ClickConfirm ==
    /\ pc = "main" /\ runs < MaxRuns /\ runs >= 1
    /\ \E analyses \in Batches, now \in RunTimes,
          portfolio_choice \in {"Bullish", "Bearish"} :
          \E ticker \in ManualTickers(portfolio_choice), target_w \in SliderInputs :
              MainRun("confirm", now, analyses, portfolio_choice, ticker, target_w)

Next == Refresh \/ ClickYes \/ ClickNo \/ ClickConfirm

Spec == Init /\ [][Next]_vars

(***************************************************************************)
(* Calls of the functions of the core on bounded inputs.  The initial     *)
(* state holds the arguments of one call; the action applies the function. *)
(***************************************************************************)
\* bounds of the inputs
NumArbKeys == 2
MaxAnalyses == 3

\* the session is not running while a function is called on its own
SessionIdle ==
    /\ bull_weights = EmptyDict
    /\ bear_weights = EmptyDict
    /\ prev_bull_weights = EmptyDict
    /\ prev_bear_weights = EmptyDict
    /\ show_sentiment_modal = FALSE
    /\ pending_analysis = NoAnalysis
    /\ reallocate_approved = FALSE
    /\ logged_decision_hashes = {}
    /\ decision_log = EmptyBag
    /\ alert_rendered = FALSE
    /\ runs = 0
    /\ run = NoRun

\* keys of caller-supplied dicts: a ticker of both universes, one of
\* neither, one of the bearish universe only
ArbKeys == << "AAPL", "X", "KO" >>
ArbKeySet == {ArbKeys[i] : i \in 1..NumArbKeys}
ArbValues == {R(0 - 1, 2), Zero, R(15, 100), R(1, 2), One}

\* arbitrary caller-supplied dicts, valid weight vectors or not
ArbDicts == UNION { [S -> ArbValues] : S \in (SUBSET ArbKeySet) \ {{}} }

\* the position of the last tilted ticker of a universe
LastTilted(universe, tilt) ==
    CHOOSE i \in 1..Len(universe) :
        /\ universe[i] \in tilt
        /\ \A j \in (i + 1)..Len(universe) : universe[j] \notin tilt

\* universes passed to build_portfolios: the first n tickers of the two
\* configured universes, and the n tickers from the last tilted one on
UniversePairs ==
    LET lb == LastTilted(BULLISH_UNIVERSE, BullTilt)
        le == LastTilted(BEARISH_UNIVERSE, BearTilt)
    IN  { << SubSeq(BULLISH_UNIVERSE, 1, n), SubSeq(BEARISH_UNIVERSE, 1, n) >> :
             n \in 0..Len(BULLISH_UNIVERSE) }
        \cup
        { << SubSeq(BULLISH_UNIVERSE, lb, lb + n - 1),
             SubSeq(BEARISH_UNIVERSE, le, le + n - 1) >> :
             n \in 1..(Len(BEARISH_UNIVERSE) - le + 1) }

\* weight vectors the program itself produces: the untilted targets of the
\* prefixes of the configured universes and the tilted configured targets
TargetDicts ==
    { bull_target(SubSeq(BULLISH_UNIVERSE, 1, n), "Neutral") :
         n \in 1..Len(BULLISH_UNIVERSE) }
    \cup { bear_target(SubSeq(BEARISH_UNIVERSE, 1, n), "Neutral") :
             n \in 1..Len(BEARISH_UNIVERSE) }
    \cup { bull_target(BULLISH_UNIVERSE, "Bullish"),
           bear_target(BEARISH_UNIVERSE, "Bearish") }

\* previous weights and targets handed to the functions
DictInputs == {EmptyDict} \cup ArbDicts \cup TargetDicts

BuildPortfoliosCalls ==
    { [fn |-> "build_portfolios", bullish_universe |-> u[1],
       bearish_universe |-> u[2], regime |-> r, prev_bull |-> p, prev_bear |-> p] :
         u \in UniversePairs, r \in Regimes, p \in DictInputs }

LimitTurnoverCalls ==
    { [fn |-> "limit_turnover", prev |-> p, target |-> t] :
         p \in DictInputs, t \in DictInputs }

AllocInit ==
    /\ SessionIdle
    /\ pc = "call"
    /\ args \in BuildPortfoliosCalls \cup LimitTurnoverCalls
    /\ ret = << >>

CallBuildPortfolios ==
    /\ pc = "call" /\ args.fn = "build_portfolios"
    /\ ret' = build_portfolios(args.bullish_universe, args.bearish_universe,
                                args.regime, args.prev_bull, args.prev_bear)
    /\ pc' = "done"
    /\ UNCHANGED << args, session >>

CallLimitTurnover ==
    /\ pc = "call" /\ args.fn = "limit_turnover"
    /\ ret' = limit_turnover(args.prev, args.target)
    /\ pc' = "done"
    /\ UNCHANGED << args, session >>

AllocNext == CallBuildPortfolios \/ CallLimitTurnover

AllocSpec == AllocInit /\ [][AllocNext]_vars

\* analyses handed to determine_regime
AnalysisInputs ==
    { Analysis("Positive", i, c) : i \in {R(1, 2), One}, c \in {"Company", "Macro"} }
    \cup { Analysis("Negative", i, c) :
             i \in {R(1, 2), R(6, 10)},
             c \in {"Macro", "Geopolitical", "Company", "Mixed"} }
    \cup { Analysis("Neutral", One, "Macro") }

AnalysesInputs == UNION { [1..n -> AnalysisInputs] : n \in 0..MaxAnalyses }

RegimeInit ==
    /\ SessionIdle
    /\ pc = "call"
    /\ args \in { [fn |-> "determine_regime", analyses |-> a] : a \in AnalysesInputs }
    /\ ret = << >>

CallDetermineRegime ==
    /\ pc = "call" /\ args.fn = "determine_regime"
    /\ ret' = determine_regime(args.analyses)
    /\ pc' = "done"
    /\ UNCHANGED << args, session >>

RegimeNext == CallDetermineRegime

RegimeSpec == RegimeInit /\ [][RegimeNext]_vars

\* requested target weights: below 0, on the slider, above the cap
TargetWeightInputs ==
    {R(0 - 1, 10), Zero, SliderStep, R(75, 1000), MAX_WEIGHT_PER_STOCK,
     R(20, 100), R(8, 10), One}

\* the two-asset mapping {"A": 0.5, "B": 0.5}
TwoAssets == ("A" :> R(1, 2)) @@ ("B" :> R(1, 2))

RebalanceCalls ==
    { [fn |-> "rebalance_to_target", weights |-> w, ticker |-> t, target_weight |-> x] :
         w \in DictInputs \cup {TwoAssets},
         t \in ArbKeySet \cup {"NVDA", "BRK-B", "A"},
         x \in TargetWeightInputs }

RebalanceInit ==
    /\ SessionIdle
    /\ pc = "call"
    /\ args \in RebalanceCalls
    /\ ret = << >>

CallRebalanceToTarget ==
    /\ pc = "call" /\ args.fn = "rebalance_to_target"
    /\ ret' = rebalance_to_target(args.weights, args.ticker, args.target_weight)
    /\ pc' = "done"
    /\ UNCHANGED << args, session >>

RebalanceNext == CallRebalanceToTarget

RebalanceSpec == RebalanceInit /\ [][RebalanceNext]_vars

(***************************************************************************)
(* Calls of build_portfolios and limit_turnover around the clamped         *)
(* targets: previous weights that are empty, the untilted target of the    *)
(* universe, one or two keys with arbitrary values, inside the universe or *)
(* not.                                                                    *)
(***************************************************************************)
\* one key with an arbitrary value
SingleKeyDicts == { Dict([k \in {key} |-> v]) : key \in ArbKeySet, v \in ArbValues }

\* half of the weight on AAPL, half on a ticker of no universe
HalfOutside == ("AAPL" :> R(1, 2)) @@ ("X" :> R(1, 2))

\* the previous weights of a call, per universe
PreviousInputs(bullish_universe, bearish_universe) ==
    { << p, p >> : p \in {EmptyDict, HalfOutside} \cup SingleKeyDicts } \cup
    { << clamp_weights(equal_weight(bullish_universe)),
         clamp_weights(equal_weight(bearish_universe)) >> }

TargetCalls ==
    { [fn |-> "build_portfolios", bullish_universe |-> c[1][1],
       bearish_universe |-> c[1][2], regime |-> r,
       prev_bull |-> c[2][1], prev_bear |-> c[2][2]] :
         c \in UNION { {u} \X PreviousInputs(u[1], u[2]) : u \in UniversePairs },
         r \in Regimes }

BlendCalls ==
    { [fn |-> "limit_turnover", prev |-> p, target |-> t] :
         p \in SingleKeyDicts \cup {HalfOutside},
         t \in SingleKeyDicts \cup {HalfOutside} } \cup
    { [fn |-> "limit_turnover", prev |-> w, target |-> w] : w \in TargetDicts }

TargetInit ==
    /\ SessionIdle
    /\ pc = "call"
    /\ args \in TargetCalls \cup BlendCalls
    /\ ret = << >>

TargetSpec == TargetInit /\ [][AllocNext]_vars

(***************************************************************************)
(* build_portfolios called cycle after cycle with a fixed regime and fixed *)
(* universes, each output passed back as the next call's previous weights. *)
(***************************************************************************)
\* all of the weight on one ticker
OneHot(ticker) == Dict([k \in {ticker} |-> One])

\* half of the weight on each of the first two tickers
HalfHalf(universe) == Dict([k \in {universe[1], universe[2]} |-> R(1, 2)])

\* pairs of valid previous weights with keys in the universes: all of the
\* weight on one of the first tickers, half each on the first two, the
\* untilted target
ValidPrevious(bullish_universe, bearish_universe) ==
    { << OneHot(bullish_universe[i]), OneHot(bearish_universe[i]) >> :
         i \in 1..NumArbKeys } \cup
    { << HalfHalf(bullish_universe),
         clamp_weights(equal_weight(bearish_universe)) >>,
      << clamp_weights(equal_weight(bullish_universe)),
         HalfHalf(bearish_universe) >> }

\* universes with at least NumArbKeys tickers and at least two
FeedBackUniverses ==
    { u \in UniversePairs : Len(u[1]) >= NumArbKeys /\ Len(u[1]) >= 2 }

ConvergeInit ==
    /\ SessionIdle
    /\ pc = "cycle"
    /\ args \in { [fn |-> "build_portfolios", bullish_universe |-> u[1],
                   bearish_universe |-> u[2], regime |-> r] :
                     u \in FeedBackUniverses, r \in Regimes }
    /\ ret \in ValidPrevious(args.bullish_universe, args.bearish_universe)

\* one cycle: the last output is the previous weights of the next call
FeedBackCycle ==
    /\ pc = "cycle"
    /\ ret' = build_portfolios(args.bullish_universe, args.bearish_universe,
                                args.regime, ret[1], ret[2])
    /\ UNCHANGED << pc, args, session >>

ConvergeNext == FeedBackCycle

\* another cycle changes the weights: ENABLED <<FeedBackCycle>>_vars
CycleChanges ==
    build_portfolios(args.bullish_universe, args.bearish_universe,
                     args.regime, ret[1], ret[2]) # ret

\* Every cycle is followed by another one: weak fairness of FeedBackCycle,
\* WF_vars(FeedBackCycle), written out with CycleChanges for its ENABLED.
ConvergeSpec ==
    /\ ConvergeInit /\ [][ConvergeNext]_vars
    /\ ([]<>(~CycleChanges) \/ []<><<FeedBackCycle>>_vars)

(***************************************************************************)
(* should_log_decision called again and again in one session, each True    *)
(* followed by db.log_decision as in main().                               *)
(***************************************************************************)
\* bound of the number of rows written to the decision log
MaxLogged == 102

\* the session variables the decision log does not touch
portfolio_state ==
    << bull_weights, bear_weights, prev_bull_weights, prev_bear_weights,
       show_sentiment_modal, pending_analysis, reallocate_approved,
       alert_rendered, runs, run >>

\* the i-th decision of a session: three regimes per minute
RegimeOf(i) == << "Bullish", "Bearish", "Neutral" >>[(i % 3) + 1]
MinuteOf(i) == i \div 3

\* line 461: the hash of the i-th regime decision, taken at a second of its
\* minute
RegimeHash(i, second) ==
    create_decision_hash(RegimeOf(i), EmptyDict, Timestamp(MinuteOf(i), second))

\* the number of different hashes logged so far
DistinctLogged == Cardinality(BagToSet(decision_log))

\* lines 466 and 665: the calls of should_log_decision.  New hashes come in
\* a fixed order, one more than the set keeps; a call is repeated, at a
\* later second of its minute, for the first and for the latest hash.
LogCalls ==
    { [fn |-> "should_log_decision", old_weights |-> EmptyDict,
       new_weights |-> EmptyDict, decision_hash |-> RegimeHash(i, 0),
       min_turnover |-> Zero, high_impact_news |-> FALSE] :
         i \in {DistinctLogged + 1} \cap 1..(TrimLimit + 1) } \cup
    { [fn |-> "should_log_decision", old_weights |-> TwoAssets,
       new_weights |-> TwoAssets,
       decision_hash |-> create_decision_hash(RegimeOf(i), TwoAssets,
                                              Timestamp(MinuteOf(i), 0)),
       min_turnover |-> R(1, 100), high_impact_news |-> FALSE] :
         i \in {DistinctLogged + 1} \cap 1..(TrimLimit + 1) } \cup
    { [fn |-> "should_log_decision", old_weights |-> EmptyDict,
       new_weights |-> EmptyDict, decision_hash |-> RegimeHash(i, 30),
       min_turnover |-> Zero, high_impact_news |-> TRUE] :
         i \in {1, DistinctLogged} \cap 1..(TrimLimit + 1) }

\* before the first call
NoCall ==
    [fn |-> "none", old_weights |-> EmptyDict, new_weights |-> EmptyDict,
     decision_hash |-> << >>, min_turnover |-> Zero, high_impact_news |-> FALSE]

LogInit ==
    /\ SessionIdle
    /\ pc = "log"
    /\ args = NoCall
    /\ ret = FALSE

\* lines 466-476, 665-675: the decision is logged when the call returns True
CallShouldLogDecision ==
    /\ pc = "log" /\ BagCardinality(decision_log) < MaxLogged
    /\ \E call \in LogCalls :
          \E outcome \in should_log_decision(logged_decision_hashes,
                                            call.old_weights, call.new_weights,
                                            call.decision_hash, call.min_turnover,
                                            call.high_impact_news) :
              /\ logged_decision_hashes' = outcome.logged
              /\ decision_log' =
                    IF outcome.result
                    THEN log_decision(decision_log, call.decision_hash)
                    ELSE decision_log
              /\ args' = call
              /\ ret' = outcome.result
    /\ UNCHANGED << pc, portfolio_state >>

LogNext == CallShouldLogDecision

LogSpec == LogInit /\ [][LogNext]_vars

(***************************************************************************)
(* Properties                                                              *)
(***************************************************************************)
NonNegative(w) == \A k \in DOMAIN w : RLe(Zero, w[k])
WithinCap(w) ==
    \A k \in DOMAIN w : RLe(Zero, w[k]) /\ RLe(w[k], MAX_WEIGHT_PER_STOCK)
SumsToOne(w) == SumValues(w) = One
\* a dict of non-negative weights that sum to 1
ValidVector(w) == NonNegative(w) /\ SumsToOne(w)
\* a list without repeated tickers
Distinct(tickers) == Cardinality(Range(tickers)) = Len(tickers)
\* so many tickers that equal weights respect the cap: 1 / N <= cap
FitsCap(tickers) == RLe(R(1, Len(tickers)), MAX_WEIGHT_PER_STOCK)

BuildDone == pc = "done" /\ args.fn = "build_portfolios"
LimitDone == pc = "done" /\ args.fn = "limit_turnover"
RegimeDone == pc = "done" /\ args.fn = "determine_regime"
RebalanceDone == pc = "done" /\ args.fn = "rebalance_to_target"

\* the universe, previous weights and target of the i-th portfolio of a
\* call of build_portfolios (1 bullish, 2 bearish)
UniverseOf(i) == IF i = 1 THEN args.bullish_universe ELSE args.bearish_universe
PrevOf(i) == IF i = 1 THEN args.prev_bull ELSE args.prev_bear
TargetOf(i) ==
    IF i = 1 THEN bull_target(args.bullish_universe, args.regime)
    ELSE bear_target(args.bearish_universe, args.regime)

\* C1 as stated: for every universe, regime and previous weights, every
\* weight of both vectors returned by build_portfolios lies in
\* [0, MAX_WEIGHT_PER_STOCK].
C1_AnyUniverseWithinCap ==
    BuildDone => \A i \in {1, 2} : WithinCap(ret[i])

\* C1 amended: for a universe of distinct tickers that is empty or has at
\* least 1 / MAX_WEIGHT_PER_STOCK tickers, and previous weights that are
\* empty or a valid vector within the cap, every weight of the vector
\* returned by build_portfolios lies in [0, MAX_WEIGHT_PER_STOCK].
C1_WithinCap ==
    BuildDone =>
        \A i \in {1, 2} :
            ( /\ Distinct(UniverseOf(i))
              /\ Len(UniverseOf(i)) = 0 \/ FitsCap(UniverseOf(i))
              /\ \/ PrevOf(i) = EmptyDict
                 \/ ValidVector(PrevOf(i)) /\ WithinCap(PrevOf(i)) )
            => WithinCap(ret[i])

\* a universe of at least 7 tickers, non-empty valid capped previous
\* weights, and the turnover limiter blended previous and target
C1_Witness ==
    /\ BuildDone
    /\ Len(UniverseOf(1)) > 0 /\ FitsCap(UniverseOf(1))
    /\ PrevOf(1) # EmptyDict /\ ValidVector(PrevOf(1)) /\ WithinCap(PrevOf(1))
    /\ RLt(MAX_TURNOVER_PER_UPDATE, Turnover(PrevOf(1), TargetOf(1)))
    /\ ret[1] # TargetOf(1)
    /\ WithinCap(ret[1])

\* C2 as stated: with previous weights empty or non-negative summing to 1,
\* each vector returned by build_portfolios sums to 1.0 for a non-empty
\* universe and is empty for an empty universe.
C2_EmptyUniverseEmptyVector ==
    BuildDone =>
        \A i \in {1, 2} :
            (PrevOf(i) = EmptyDict \/ ValidVector(PrevOf(i)))
            => IF Len(UniverseOf(i)) > 0 THEN SumsToOne(ret[i])
               ELSE ret[i] = EmptyDict

\* C2 amended: with previous weights empty or non-negative summing to 1,
\* each vector returned by build_portfolios sums to 1.0 when the universe
\* is non-empty; for an empty universe it is empty when the previous
\* weights are empty and is the previous weights (sum 1.0) otherwise.
C2_UnitSum ==
    BuildDone =>
        \A i \in {1, 2} :
            (PrevOf(i) = EmptyDict \/ ValidVector(PrevOf(i)))
            => IF Len(UniverseOf(i)) > 0 THEN SumsToOne(ret[i])
               ELSE IF PrevOf(i) = EmptyDict THEN ret[i] = EmptyDict
               ELSE ret[i] = PrevOf(i) /\ SumsToOne(ret[i])

\* a universe too small for the cap, valid previous weights on other keys,
\* and the limiter renormalised the blend to sum 1
C2_Witness ==
    /\ BuildDone
    /\ Len(UniverseOf(1)) > 0 /\ ~FitsCap(UniverseOf(1))
    /\ PrevOf(1) # EmptyDict /\ ValidVector(PrevOf(1))
    /\ RLt(MAX_TURNOVER_PER_UPDATE, Turnover(PrevOf(1), TargetOf(1)))
    /\ ret[1] # TargetOf(1)
    /\ SumsToOne(ret[1])

\* the claim of C3 about one (previous, target) pair and the output
TurnoverBounded(prev, target, out) ==
    \/ RLe(Turnover(prev, out), MAX_TURNOVER_PER_UPDATE)
    \/ RLe(Turnover(prev, target), MAX_TURNOVER_PER_UPDATE) /\ out = target

\* C3 as stated: for all (previous, target) pairs the output of
\* limit_turnover deviates from previous by at most MAX_TURNOVER_PER_UPDATE
\* in total, or equals target when the raw turnover was within the cap.
C3_AnyPairBounded ==
    LimitDone => TurnoverBounded(args.prev, args.target, ret)

\* C3 amended: for all pairs of valid weight vectors (non-negative, each
\* summing to 1.0) the output of limit_turnover deviates from previous by
\* at most MAX_TURNOVER_PER_UPDATE in total, or equals target when the raw
\* turnover was within the cap.
C3_TurnoverBounded ==
    (LimitDone /\ ValidVector(args.prev) /\ ValidVector(args.target))
    => TurnoverBounded(args.prev, args.target, ret)

\* a valid pair whose raw turnover exceeds the cap: the output moved by
\* exactly the cap
C3_Witness ==
    /\ LimitDone /\ ValidVector(args.prev) /\ ValidVector(args.target)
    /\ RLt(MAX_TURNOVER_PER_UPDATE, Turnover(args.prev, args.target))
    /\ Turnover(args.prev, ret) = MAX_TURNOVER_PER_UPDATE

\* the sum of impact_score over the analyses with a label in labels and a
\* category in categories
ImpactSum(analyses, labels, categories) ==
    LET f[i \in 0..Len(analyses)] ==
            IF i = 0 THEN Zero
            ELSE IF analyses[i].label \in labels
                    /\ analyses[i].category \in categories
                 THEN RAdd(f[i - 1], analyses[i].impact_score)
                 ELSE f[i - 1]
    IN  f[Len(analyses)]

Categories == {"Macro", "Geopolitical", "Company", "Mixed"}
PosOf(analyses) == ImpactSum(analyses, {"Positive"}, Categories)
NegOf(analyses) == ImpactSum(analyses, {"Negative"}, Categories)
MacroGeoNegOf(analyses) ==
    ImpactSum(analyses, {"Negative"}, {"Macro", "Geopolitical", "Mixed"})

\* the conditions of the two rules
BearishRule(analyses) ==
    RLe(One, MacroGeoNegOf(analyses)) /\ RLt(PosOf(analyses), NegOf(analyses))
BullishRule(analyses) ==
    RLe(One, PosOf(analyses)) /\ RLt(NegOf(analyses), PosOf(analyses))

\* C4: for a non-empty sequence of analyses determine_regime returns
\* Bearish if macro_geo_neg >= 1.0 and neg > pos, otherwise Bullish if
\* pos >= 1.0 and pos > neg, otherwise Neutral; Positive analyses summing
\* to exactly 1.0 with no Negative analysis give Bullish.
C4_RegimeRule ==
    (RegimeDone /\ Len(args.analyses) > 0) =>
        /\ ret[1] = IF BearishRule(args.analyses) THEN "Bearish"
                    ELSE IF BullishRule(args.analyses) THEN "Bullish"
                    ELSE "Neutral"
        /\ ( /\ PosOf(args.analyses) = One
             /\ \A i \in 1..Len(args.analyses) :
                    args.analyses[i].label # "Negative" )
           => ret[1] = "Bullish"

\* Positive analyses summing to exactly 1.0, none Negative: Bullish
C4_Witness ==
    /\ RegimeDone /\ Len(args.analyses) > 1
    /\ PosOf(args.analyses) = One
    /\ \A i \in 1..Len(args.analyses) : args.analyses[i].label # "Negative"
    /\ ret[1] = "Bullish"

\* C5 as stated: there are analyses for which the conditions of the
\* Bearish rule and of the Bullish rule both hold, and determine_regime
\* returns Bearish for them.
C5_RulesOverlap ==
    \E a \in AnalysesInputs \cup {args.analyses} :
        BearishRule(a) /\ BullishRule(a) /\ determine_regime(a)[1] = "Bearish"

\* determine_regime with the Bullish rule evaluated before the Bearish rule
BullishFirst(analyses) ==
    IF Len(analyses) = 0 THEN "Neutral"
    ELSE IF BullishRule(analyses) THEN "Bullish"
    ELSE IF BearishRule(analyses) THEN "Bearish"
    ELSE "Neutral"

\* C5 amended: the conditions of the Bearish rule and of the Bullish rule
\* never hold together (neg > pos excludes pos > neg), so determine_regime
\* returns the regime that evaluating the Bullish rule first would give.
C5_RulesExclusive ==
    RegimeDone =>
        /\ ~(BearishRule(args.analyses) /\ BullishRule(args.analyses))
        /\ ret[1] = BullishFirst(args.analyses)

\* both thresholds are crossed, the negatives dominate: Bearish
C5_Witness ==
    /\ RegimeDone
    /\ RLe(One, MacroGeoNegOf(args.analyses))
    /\ RLe(One, PosOf(args.analyses))
    /\ BearishRule(args.analyses)
    /\ ret[1] = "Bearish"

\* C6 as stated: determine_regime on an empty sequence returns exactly the
\* pair (Neutral, "no signal").
C6_NoSignalLiteral ==
    (RegimeDone /\ Len(args.analyses) = 0) => ret = << "Neutral", "no signal" >>

\* C6 amended: determine_regime on an empty sequence returns, without
\* failing, the pair (Neutral, "No news signals available; defaulting to
\* Neutral.").
C6_EmptyIsNeutral ==
    (RegimeDone /\ Len(args.analyses) = 0) =>
        ret = << "Neutral", "No news signals available; defaulting to Neutral." >>

\* determine_regime returned for the empty sequence
C6_Witness ==
    RegimeDone /\ Len(args.analyses) = 0 /\ ret[1] = "Neutral"

\* C7: after any sequence of runs of the session, confirmed manual
\* reallocations included, every stored weight is at most
\* MAX_WEIGHT_PER_STOCK.
C7_StoredWithinCap ==
    pc = "main" =>
        /\ \A k \in DOMAIN bull_weights : RLe(bull_weights[k], MAX_WEIGHT_PER_STOCK)
        /\ \A k \in DOMAIN bear_weights : RLe(bear_weights[k], MAX_WEIGHT_PER_STOCK)

\* C8: for a mapping of non-negative weights, a ticker that is a key of it
\* and any requested target weight, the output of rebalance_to_target sums
\* to 1.0.
C8_RebalanceUnitSum ==
    ( /\ RebalanceDone
      /\ args.ticker \in DOMAIN args.weights
      /\ NonNegative(args.weights) )
    => SumsToOne(ret)

\* the branch that distributes the remainder equally: at least two keys,
\* the other keys' weights total 0
C8_Witness ==
    /\ RebalanceDone
    /\ args.ticker \in DOMAIN args.weights
    /\ NonNegative(args.weights)
    /\ Cardinality(DOMAIN args.weights) > 1
    /\ \A k \in (DOMAIN args.weights) \ {args.ticker} : args.weights[k] = Zero
    /\ RLt(Zero, args.target_weight)
    /\ SumsToOne(ret)

\* C9: a completed refresh cycle replaces the stored weights of each
\* universe by the output of that cycle's build_portfolios.
C9_CycleStoresResult ==
    [][ (runs' = runs + 1 /\ run'.click = "none") =>
            /\ bull_weights' =
                  build_portfolios(BULLISH_UNIVERSE, BEARISH_UNIVERSE,
                                   run'.regime, bull_weights, bear_weights)[1]
            /\ bear_weights' =
                  build_portfolios(BULLISH_UNIVERSE, BEARISH_UNIVERSE,
                                   run'.regime, bull_weights, bear_weights)[2] ]_vars

\* the stored weights of the portfolio a confirmation acted on
ActiveWeights == IF run.portfolio = "Bullish" THEN bull_weights ELSE bear_weights

\* C10: the weights a confirmed manual reallocation stores are exactly the
\* output of rebalance_to_target on the previously stored weights, whatever
\* their turnover.
C10_ManualNotLimited ==
    (pc = "main" /\ run.click = "confirm") =>
        ActiveWeights =
            rebalance_to_target(run.old_weights, run.ticker, run.target_w)

\* a confirmation whose turnover exceeds MAX_TURNOVER_PER_UPDATE
C10_Witness ==
    /\ pc = "main" /\ run.click = "confirm"
    /\ RLt(MAX_TURNOVER_PER_UPDATE, Turnover(run.old_weights, ActiveWeights))
    /\ ActiveWeights =
          rebalance_to_target(run.old_weights, run.ticker, run.target_w)

\* C11: rebalance_to_target called with a ticker that is not a key of
\* weights returns weights unchanged (same keys, same values), for every
\* weights mapping and every target weight.
C11_AbsentTickerNoOp ==
    (RebalanceDone /\ args.ticker \notin DOMAIN args.weights)
    => ret = args.weights

\* an absent ticker, a non-empty mapping and a target weight that would
\* have changed it
C11_Witness ==
    /\ RebalanceDone
    /\ args.ticker \notin DOMAIN args.weights
    /\ Cardinality(DOMAIN args.weights) > 1
    /\ RLt(Zero, args.target_weight)
    /\ DOMAIN ret = DOMAIN args.weights
    /\ \A k \in DOMAIN ret : ret[k] = args.weights[k]

\* the requested target clamped to [0, MAX_WEIGHT_PER_STOCK]
ClampedTarget(target_weight) ==
    IF RLt(target_weight, Zero) THEN Zero
    ELSE IF RLt(MAX_WEIGHT_PER_STOCK, target_weight) THEN MAX_WEIGHT_PER_STOCK
    ELSE target_weight

\* the total of the weights of the keys other than ticker
OthersTotal(weights, ticker) ==
    SumValues([k \in (DOMAIN weights) \ {ticker} |-> weights[k]])

\* C12: for weights with at least two keys, ticker a key and the other
\* keys' total above 1e-9, rebalance_to_target gives ticker the clamped
\* target and every other key k the value
\* weights[k] * (1 - clamped target) / (sum of the other weights);
\* ({A: 0.5, B: 0.5}, A, 0.8) gives {A: 0.15, B: 0.85}.
C12_ProportionalRescale ==
    ( /\ RebalanceDone
      /\ args.ticker \in DOMAIN args.weights
      /\ Cardinality(DOMAIN args.weights) >= 2
      /\ ~LeEpsilon(OthersTotal(args.weights, args.ticker)) )
    => /\ DOMAIN ret = DOMAIN args.weights
       /\ ret[args.ticker] = ClampedTarget(args.target_weight)
       /\ \A k \in (DOMAIN ret) \ {args.ticker} :
              ret[k] = RDiv(RMul(args.weights[k],
                                 RSub(One, ClampedTarget(args.target_weight))),
                            OthersTotal(args.weights, args.ticker))
       /\ ( /\ args.weights = TwoAssets
            /\ args.ticker = "A"
            /\ args.target_weight = R(8, 10) )
          => ret = ("A" :> R(15, 100)) @@ ("B" :> R(85, 100))

\* the example: ({A: 0.5, B: 0.5}, A, 0.8) returned {A: 0.15, B: 0.85}
C12_Witness ==
    /\ RebalanceDone
    /\ args.weights = TwoAssets /\ args.ticker = "A"
    /\ args.target_weight = R(8, 10)
    /\ ret = ("A" :> R(15, 100)) @@ ("B" :> R(85, 100))

\* the i-th portfolio of a call of build_portfolios was not turnover-limited:
\* the raw turnover from "prev or target" to the target is within the limit
NotLimited(i) ==
    RLe(Turnover(OrElse(PrevOf(i), TargetOf(i)), TargetOf(i)),
        MAX_TURNOVER_PER_UPDATE)

\* C13: a portfolio that build_portfolios returned without turnover-limiting
\* is returned again when the output is passed back as the previous weights
\* with the same universes and regime, so an unlimited pair (b1, e1) is a
\* fixed point; and limit_turnover(w, w) = w.
C13_FixedPoint ==
    /\ BuildDone =>
          \A i \in 1..2 :
             NotLimited(i) =>
                build_portfolios(args.bullish_universe, args.bearish_universe,
                                 args.regime, ret[1], ret[2])[i] = ret[i]
    /\ (LimitDone /\ args.prev = args.target) => ret = args.prev

\* a non-empty previous vector that differs from the tilted target by less
\* than the limit: the output is the target and is returned again
C13_Witness ==
    /\ BuildDone
    /\ args.regime = "Bullish"
    /\ args.prev_bull # EmptyDict
    /\ args.prev_bull # TargetOf(1)
    /\ NotLimited(1) /\ NotLimited(2)
    /\ ret[1] = TargetOf(1)
    /\ build_portfolios(args.bullish_universe, args.bearish_universe,
                        args.regime, ret[1], ret[2]) = ret

\* the untilted target of a universe
Untilted(universe) == clamp_weights(equal_weight(universe))

\* C14: with regime Bullish the bearish target is the untilted
\* clamp_weights(equal_weight(bearish universe)), with regime Bearish the
\* bullish target is the untilted clamp_weights(equal_weight(bullish
\* universe)), with regime Neutral both are untilted, also when a ticker is
\* in both universes; with no previous weights the targets are what
\* build_portfolios returns.
C14_TiltOnlyMatching ==
    BuildDone =>
       /\ args.regime # "Bullish" => TargetOf(1) = Untilted(args.bullish_universe)
       /\ args.regime # "Bearish" => TargetOf(2) = Untilted(args.bearish_universe)
       /\ (args.prev_bull = EmptyDict /\ args.regime # "Bullish")
             => ret[1] = Untilted(args.bullish_universe)
       /\ (args.prev_bear = EmptyDict /\ args.regime # "Bearish")
             => ret[2] = Untilted(args.bearish_universe)

\* regime Bullish, AAPL in both universes: the bullish vector is tilted, the
\* bearish one is not
C14_Witness ==
    /\ BuildDone
    /\ args.regime = "Bullish"
    /\ args.prev_bull = EmptyDict /\ args.prev_bear = EmptyDict
    /\ "AAPL" \in Range(args.bullish_universe) \cap Range(args.bearish_universe)
    /\ ret[1] # Untilted(args.bullish_universe)
    /\ ret[2] = Untilted(args.bearish_universe)
    /\ RLt(ret[2]["AAPL"], ret[1]["AAPL"])

\* C15 as stated: for every universe and every previous weights, whatever
\* their keys, the key set of each vector returned by build_portfolios is a
\* subset of the universe's tickers.
C15_KeysWithinUniverse ==
    BuildDone => \A i \in 1..2 : DOMAIN ret[i] \subseteq Range(UniverseOf(i))

\* C15: the key set of each vector returned by build_portfolios is exactly
\* the universe's tickers when the previous weights have no key outside the
\* universe or the portfolio was not turnover-limited (a ticker limited to
\* weight 0 stays a key); a turnover-limited portfolio is keyed by the
\* universe's tickers together with the keys of the previous weights.
C15_KeysOfUniverseAndPrevious ==
    BuildDone =>
       \A i \in 1..2 :
          /\ Range(UniverseOf(i)) \subseteq DOMAIN ret[i]
          /\ DOMAIN ret[i] \subseteq Range(UniverseOf(i)) \cup DOMAIN PrevOf(i)
          /\ (DOMAIN PrevOf(i) \subseteq Range(UniverseOf(i)) \/ NotLimited(i))
                => DOMAIN ret[i] = Range(UniverseOf(i))
          /\ (~NotLimited(i) /\ ret[i] # TargetOf(i))
                => DOMAIN ret[i] = Range(UniverseOf(i)) \cup DOMAIN PrevOf(i)

\* a turnover-limited portfolio whose previous weights hold a ticker outside
\* the universe: the ticker is a key of the output, with a positive weight
C15_Witness ==
    /\ BuildDone
    /\ Len(args.bullish_universe) > 1
    /\ ~NotLimited(1)
    /\ "X" \in DOMAIN args.prev_bull
    /\ "X" \notin Range(args.bullish_universe)
    /\ "X" \in DOMAIN ret[1]
    /\ RLt(Zero, ret[1]["X"])
    /\ DOMAIN ret[1] = Range(args.bullish_universe) \cup DOMAIN args.prev_bull

\* the blend of limit_turnover floored at 0: prev moved towards target by
\* the fraction MAX_TURNOVER_PER_UPDATE / turnover of the difference
FlooredBlend(prev, target) ==
    LET all_keys == (DOMAIN prev) \cup (DOMAIN target)
        scale == RDiv(MAX_TURNOVER_PER_UPDATE, Turnover(prev, target))
    IN  [k \in all_keys |->
           RMax(Zero, RAdd(Get(prev, k),
                           RMul(RSub(Get(target, k), Get(prev, k)), scale)))]

\* C16: when the raw turnover exceeds MAX_TURNOVER_PER_UPDATE and the
\* blended weights floored at 0 sum to 0 or less, limit_turnover returns the
\* target unchanged.
C16_FallbackToTarget ==
    ( /\ LimitDone
      /\ RLt(MAX_TURNOVER_PER_UPDATE, Turnover(args.prev, args.target))
      /\ RLe(SumValues(FlooredBlend(args.prev, args.target)), Zero) )
    => ret = args.target

\* a negative previous weight whose blend is floored to an all-zero vector
\* while the target is not all zero
C16_Witness ==
    /\ LimitDone
    /\ RLt(MAX_TURNOVER_PER_UPDATE, Turnover(args.prev, args.target))
    /\ RLe(SumValues(FlooredBlend(args.prev, args.target)), Zero)
    /\ \E k \in DOMAIN args.target : RLt(Zero, args.target[k])
    /\ ret = args.target
    /\ ret # FlooredBlend(args.prev, args.target)

\* C18: a click on CONFIRM REALLOCATION changes the stored weights only in a
\* state where reallocate_approved is true; while the panel shows "Waiting
\* for sentiment-trigger approval" the stored weights stay unchanged.
C18_ConfirmGated ==
    [][ ( /\ runs' = runs + 1 /\ run'.click = "confirm"
          /\ << bull_weights', bear_weights' >> # << bull_weights, bear_weights >> )
        => reallocate_approved ]_vars

\* the L1 distance of the i-th fed-back vector to its clamped target
DistanceToTarget(w, i) == Turnover(w, TargetOf(i))

\* C19: with the regime and the universes fixed and each output of
\* build_portfolios passed back as the previous weights, from any valid
\* previous vector with keys in the universe the L1 distance to the clamped
\* target shrinks by MAX_TURNOVER_PER_UPDATE in every limited cycle, the
\* weights equal the clamped target after finitely many cycles, and they
\* stay equal to it in every later cycle.
C19_Converges ==
    /\ [][ \A i \in 1..2 :
              IF RLt(MAX_TURNOVER_PER_UPDATE, DistanceToTarget(ret[i], i))
              THEN DistanceToTarget(ret'[i], i) =
                      RSub(DistanceToTarget(ret[i], i), MAX_TURNOVER_PER_UPDATE)
              ELSE ret'[i] = TargetOf(i) ]_vars
    /\ <>(ret = << TargetOf(1), TargetOf(2) >>)
    /\ [][ \A i \in 1..2 : ret[i] = TargetOf(i) => ret'[i] = TargetOf(i) ]_vars

\* a bullish vector on its way down from an overweight NVDA under the
\* Bullish regime, after limited cycles: within MAX_TURNOVER_PER_UPDATE of
\* the tilted target, which the next cycle returns
C19_Witness ==
    /\ pc = "cycle"
    /\ args.regime = "Bullish"
    /\ Len(args.bullish_universe) = Len(BULLISH_UNIVERSE)
    /\ DOMAIN ret[1] = Range(args.bullish_universe)
    /\ RLt(TargetOf(1)["NVDA"], ret[1]["NVDA"])
    /\ RLt(Zero, DistanceToTarget(ret[1], 1))
    /\ RLe(DistanceToTarget(ret[1], 1), MAX_TURNOVER_PER_UPDATE)
    /\ build_portfolios(args.bullish_universe, args.bearish_universe,
                        args.regime, ret[1], ret[2])[1] = TargetOf(1)

\* the last step was a call of should_log_decision
LogDone == pc = "log" /\ args.fn = "should_log_decision"

=============================================================================
